---- MODULE Spec2Model ----
(***************************************************************************)
(* GIF Duel (src/src/GifVote.tsx): the gameReducer state machine, the pool *)
(* cache (ensurePool / fetchPool), the pairing helper (pickTwoDistinct)    *)
(* and the provider's handlers and effects that drive them.                *)
(*                                                                         *)
(* Four specifications share the variables:                                *)
(*   SpecReducer  gameReducer under every sequence of its seven actions;   *)
(*   Spec         the mounted widget: handlers, effects, pending fetches;  *)
(*   SpecThemes   the widget with themes of different cache keys and       *)
(*                responses that repeat a record;                          *)
(*   SpecPick     pickTwoDistinct, one random draw per step.               *)
(*                                                                         *)
(* JavaScript strings that the code trims, lowercases or concatenates are  *)
(* sequences of one-character strings; T | null is a sequence of length    *)
(* at most one.                                                            *)
(***************************************************************************)
EXTENDS Integers, Sequences, FiniteSets, Bags, TLC

VARIABLES
    state,       \* GameState held by useReducer (GifVote.tsx:273)
    dispatched,  \* history variable: the reducer actions of the last step, in order
    prevLen,     \* history variable: length of state.history before the last step
    preVote,     \* history variable: score/round/history before the last effective
                 \* VOTE, the last LOAD_PAIR_* action that followed it, and whether
                 \* UNDO_LAST_VOTE then came; None once anything else is dispatched
    rating,      \* useState rating (GifVote.tsx:276)
    poolCache,   \* poolCacheRef.current: key -> GifItem[] (GifVote.tsx:281)
    apiKey,      \* getGiphyApiKey() (GifVote.tsx:283); "" when not configured
    mounted,     \* whether the mount effects have run
    pending,     \* bag of loadNextPair calls suspended at fetch (GifVote.tsx:302),
                 \* each with the cache key its pool will be stored under
    lastOp,      \* history variable: the handler or callback of the last step, with
                 \* what it was given or found (the draft, the resolved key and the
                 \* entry cached under it before, whether an error was shown)
    pArr, pI, pJ, pPc, pResult   \* pickTwoDistinct's argument, locals, position, result

reducerVars == <<state, dispatched, prevLen, preVote>>

widgetVars == <<rating, poolCache, apiKey, mounted, pending, lastOp>>

pickVars == <<pArr, pI, pJ, pPc, pResult>>

vars == <<reducerVars, widgetVars, pickVars>>

-----------------------------------------------------------------------------
(* T | null *)

None == <<>>

Some(x) == <<x>>

IsSome(o) == Len(o) > 0

Get(o) == o[1]

-----------------------------------------------------------------------------
(* Strings *)

Whitespace == {" ", "\t"}

Cats == <<"c", "a", "t", "s">>

RECURSIVE trimStart(_)
trimStart(s) ==
    IF Len(s) > 0 /\ Head(s) \in Whitespace THEN trimStart(Tail(s)) ELSE s

RECURSIVE trimEnd(_)
trimEnd(s) ==
    IF Len(s) > 0 /\ s[Len(s)] \in Whitespace
    THEN trimEnd(SubSeq(s, 1, Len(s) - 1))
    ELSE s

\* String.prototype.trim
trim(s) == trimEnd(trimStart(s))

UpperCase ==
    <<"A", "B", "C", "D", "E", "F", "G", "H", "I", "J", "K", "L", "M",
      "N", "O", "P", "Q", "R", "S", "T", "U", "V", "W", "X", "Y", "Z">>

LowerCase ==
    <<"a", "b", "c", "d", "e", "f", "g", "h", "i", "j", "k", "l", "m",
      "n", "o", "p", "q", "r", "s", "t", "u", "v", "w", "x", "y", "z">>

\* The lowercase letter of each uppercase letter
LowerTable ==
    [c \in {UpperCase[i] : i \in 1..Len(UpperCase)} |->
        LowerCase[CHOOSE i \in 1..Len(UpperCase) : UpperCase[i] = c]]

lowerChar(c) == IF c \in DOMAIN LowerTable THEN LowerTable[c] ELSE c

\* String.prototype.toLowerCase
toLowerCase(s) == [i \in 1..Len(s) |-> lowerChar(s[i])]

-----------------------------------------------------------------------------
(* Types (GifVote.tsx:15-64) *)

VoteType == {"like", "funny"}

Side == {"left", "right"}

\* Date.now() readings a VOTE can record
Timestamps == {1, 2}

GifA == [id |-> "a", title |-> "A", displayUrl |-> "u1"]

GifB == [id |-> "b", title |-> "Untitled", displayUrl |-> "u2"]

ZeroScore ==
    [like |-> [left |-> 0, right |-> 0], funny |-> [left |-> 0, right |-> 0]]

initialState ==
    [theme |-> Cats,
     round |-> 1,
     leftGif |-> None,
     rightGif |-> None,
     poolCount |-> 0,
     score |-> ZeroScore,
     history |-> <<>>,
     isLoading |-> FALSE,
     error |-> None]

Max(a, b) == IF a >= b THEN a ELSE b

\* Values of the rating select (GifVote.tsx:432-433)
RatingG == <<"g">>

RatingPG == <<"p", "g">>

\* The options the user picks from
Ratings == {RatingG, RatingPG}

-----------------------------------------------------------------------------
(* gameReducer (GifVote.tsx:89-208), one operator per case *)

\* Mutant: the theme changes but the run (history, score, round) is kept.
SetThemeKeepsRun(s, a) ==
    [s EXCEPT !.theme = a.theme,
              !.leftGif = None,
              !.rightGif = None,
              !.poolCount = 0,
              !.error = None]

ReduceSetTheme(s, a) ==
    [s EXCEPT !.theme = a.theme,
              !.round = 1,
              !.leftGif = None,
              !.rightGif = None,
              !.poolCount = 0,
              !.score = ZeroScore,
              !.history = <<>>,
              !.error = None]

\* Mutant: LOAD_PAIR_START does not raise the loading flag.
StartKeepsLoading(s) == [s EXCEPT !.error = None]

ReduceLoadPairStart(s) ==
    [s EXCEPT !.isLoading = TRUE, !.error = None]

\* Mutant: LOAD_PAIR_SUCCESS leaves the error in place.
SuccessKeepsError(s, a) ==
    [s EXCEPT !.isLoading = FALSE,
              !.leftGif = Some(a.leftGif),
              !.rightGif = Some(a.rightGif),
              !.poolCount = a.poolCount]

ReduceLoadPairSuccess(s, a) ==
    [s EXCEPT !.isLoading = FALSE,
              !.error = None,
              !.leftGif = Some(a.leftGif),
              !.rightGif = Some(a.rightGif),
              !.poolCount = a.poolCount]

\* Mutant: LOAD_PAIR_ERROR clears the board.
ErrorClearsBoard(s, a) ==
    [s EXCEPT !.isLoading = FALSE,
              !.error = Some(a.error),
              !.leftGif = None,
              !.rightGif = None,
              !.poolCount = 0]

\* Mutant: LOAD_PAIR_ERROR leaves the loading flag as it is.
ErrorKeepsLoading(s, a) == [s EXCEPT !.error = Some(a.error)]

ReduceLoadPairError(s, a) ==
    [s EXCEPT !.isLoading = FALSE, !.error = Some(a.error)]

\* Mutant: the unset-side guard still advances the round.
VoteGuardAdvancesRound(s, a) ==
    IF ~IsSome(s.leftGif) \/ ~IsSome(s.rightGif)
    THEN [s EXCEPT !.round = @ + 1]
    ELSE LET nextScore ==
                 IF a.voteType = "like"
                 THEN [s.score EXCEPT !.like[a.winnerSide] = @ + 1]
                 ELSE [s.score EXCEPT !.funny[a.winnerSide] = @ + 1]
             record ==
                 [round |-> s.round,
                  theme |-> s.theme,
                  voteType |-> a.voteType,
                  winnerSide |-> a.winnerSide,
                  leftId |-> Get(s.leftGif).id,
                  rightId |-> Get(s.rightGif).id,
                  ts |-> a.now]
         IN  [s EXCEPT !.score = nextScore,
                       !.history = <<record>> \o s.history,
                       !.round = s.round + 1]

\* Mutant: the record's leftId and rightId are swapped.
VoteSwapsIds(s, a) ==
    IF ~IsSome(s.leftGif) \/ ~IsSome(s.rightGif)
    THEN s
    ELSE LET nextScore ==
                 IF a.voteType = "like"
                 THEN [s.score EXCEPT !.like[a.winnerSide] = @ + 1]
                 ELSE [s.score EXCEPT !.funny[a.winnerSide] = @ + 1]
             record ==
                 [round |-> s.round,
                  theme |-> s.theme,
                  voteType |-> a.voteType,
                  winnerSide |-> a.winnerSide,
                  leftId |-> Get(s.rightGif).id,
                  rightId |-> Get(s.leftGif).id,
                  ts |-> a.now]
         IN  [s EXCEPT !.score = nextScore,
                       !.history = <<record>> \o s.history,
                       !.round = s.round + 1]

\* Mutant: the record carries the round the vote leads to.
VoteRecordsNextRound(s, a) ==
    IF ~IsSome(s.leftGif) \/ ~IsSome(s.rightGif)
    THEN s
    ELSE LET nextScore ==
                 IF a.voteType = "like"
                 THEN [s.score EXCEPT !.like[a.winnerSide] = @ + 1]
                 ELSE [s.score EXCEPT !.funny[a.winnerSide] = @ + 1]
             record ==
                 [round |-> s.round + 1,
                  theme |-> s.theme,
                  voteType |-> a.voteType,
                  winnerSide |-> a.winnerSide,
                  leftId |-> Get(s.leftGif).id,
                  rightId |-> Get(s.rightGif).id,
                  ts |-> a.now]
         IN  [s EXCEPT !.score = nextScore,
                       !.history = <<record>> \o s.history,
                       !.round = s.round + 1]

ReduceVote(s, a) ==
    IF ~IsSome(s.leftGif) \/ ~IsSome(s.rightGif)
    THEN s
    ELSE LET nextScore ==
                 IF a.voteType = "like"
                 THEN [s.score EXCEPT !.like[a.winnerSide] = @ + 1]
                 ELSE [s.score EXCEPT !.funny[a.winnerSide] = @ + 1]
             record ==
                 [round |-> s.round,
                  theme |-> s.theme,
                  voteType |-> a.voteType,
                  winnerSide |-> a.winnerSide,
                  leftId |-> Get(s.leftGif).id,
                  rightId |-> Get(s.rightGif).id,
                  ts |-> a.now]
         IN  [s EXCEPT !.score = nextScore,
                       !.history = <<record>> \o s.history,
                       !.round = s.round + 1]

\* Mutant: the record is removed but the score is not reversed.
UndoKeepsScore(s) ==
    IF s.history = <<>>
    THEN s
    ELSE [s EXCEPT !.history = Tail(s.history),
                   !.round = Max(1, s.round - 1)]

\* Mutant: the reversal ignores the record's voteType.
UndoIgnoresVoteType(s) ==
    IF s.history = <<>>
    THEN s
    ELSE LET last == Head(s.history)
         IN  [s EXCEPT !.score.like[last.winnerSide] = Max(0, @ - 1),
                       !.history = Tail(s.history),
                       !.round = Max(1, s.round - 1)]

\* Mutant: the empty-history guard clears the error like the other cases do.
UndoGuardClearsError(s) ==
    IF s.history = <<>>
    THEN [s EXCEPT !.error = None]
    ELSE LET last == Head(s.history)
             rest == Tail(s.history)
             nextScore ==
                 IF last.voteType = "like"
                 THEN [s.score EXCEPT !.like[last.winnerSide] = Max(0, @ - 1)]
                 ELSE [s.score EXCEPT !.funny[last.winnerSide] = Max(0, @ - 1)]
         IN  [s EXCEPT !.score = nextScore,
                       !.history = rest,
                       !.round = Max(1, s.round - 1)]

\* Mutant: the vote is undone but the round is not taken back.
UndoKeepsRound(s) ==
    IF s.history = <<>>
    THEN s
    ELSE LET last == Head(s.history)
             rest == Tail(s.history)
             nextScore ==
                 IF last.voteType = "like"
                 THEN [s.score EXCEPT !.like[last.winnerSide] = Max(0, @ - 1)]
                 ELSE [s.score EXCEPT !.funny[last.winnerSide] = Max(0, @ - 1)]
         IN  [s EXCEPT !.score = nextScore,
                       !.history = rest]

ReduceUndoLastVote(s) ==
    IF s.history = <<>>
    THEN s
    ELSE LET last == Head(s.history)
             rest == Tail(s.history)
             nextScore ==
                 IF last.voteType = "like"
                 THEN [s.score EXCEPT !.like[last.winnerSide] = Max(0, @ - 1)]
                 ELSE [s.score EXCEPT !.funny[last.winnerSide] = Max(0, @ - 1)]
         IN  [s EXCEPT !.score = nextScore,
                       !.history = rest,
                       !.round = Max(1, s.round - 1)]

\* Mutant: the board is cleared but poolCount is kept.
ResetKeepsPoolCount(s) ==
    [s EXCEPT !.round = 1,
              !.leftGif = None,
              !.rightGif = None,
              !.score = ZeroScore,
              !.history = <<>>,
              !.error = None]

\* Mutant: RESET_RUN leaves the left item on the board.
ResetKeepsLeft(s) ==
    [s EXCEPT !.round = 1,
              !.rightGif = None,
              !.poolCount = 0,
              !.score = ZeroScore,
              !.history = <<>>,
              !.error = None]

ReduceResetRun(s) ==
    [s EXCEPT !.round = 1,
              !.leftGif = None,
              !.rightGif = None,
              !.poolCount = 0,
              !.score = ZeroScore,
              !.history = <<>>,
              !.error = None]

gameReducer(s, a) ==
    CASE a.type = "SET_THEME" -> ReduceSetTheme(s, a)
      [] a.type = "LOAD_PAIR_START" -> ReduceLoadPairStart(s)
      [] a.type = "LOAD_PAIR_SUCCESS" -> ReduceLoadPairSuccess(s, a)
      [] a.type = "LOAD_PAIR_ERROR" -> ReduceLoadPairError(s, a)
      [] a.type = "VOTE" -> ReduceVote(s, a)
      [] a.type = "UNDO_LAST_VOTE" -> ReduceUndoLastVote(s)
      [] a.type = "RESET_RUN" -> ReduceResetRun(s)
      [] OTHER -> s

-----------------------------------------------------------------------------
(* Dispatching: useReducer applies the queued actions in order *)

RECURSIVE reduceAll(_, _)
reduceAll(s, as) ==
    IF as = <<>> THEN s ELSE reduceAll(gameReducer(s, Head(as)), Tail(as))

\* The history variable preVote across one action applied to s.
TrackVote(pv, s, a) ==
    CASE a.type = "VOTE" ->
             IF IsSome(s.leftGif) /\ IsSome(s.rightGif)
             THEN Some([score |-> s.score, round |-> s.round, history |-> s.history,
                        between |-> "", undone |-> FALSE])
             ELSE None
      [] a.type \in {"LOAD_PAIR_START", "LOAD_PAIR_SUCCESS", "LOAD_PAIR_ERROR"} ->
             IF IsSome(pv) /\ ~Get(pv).undone
             THEN Some([Get(pv) EXCEPT !.between = a.type])
             ELSE None
      [] a.type = "UNDO_LAST_VOTE" ->
             IF IsSome(pv) /\ ~Get(pv).undone
             THEN Some([Get(pv) EXCEPT !.undone = TRUE])
             ELSE None
      [] OTHER -> None

Dispatch(as) ==
    /\ state' = reduceAll(state, as)
    /\ dispatched' = as
    /\ prevLen' = Len(state.history)

-----------------------------------------------------------------------------
(* Error messages (GifVote.tsx:287-363) *)

MsgMissingKey == "Missing GIPHY API key. Set VITE_GIPHY_API_KEY or REACT_APP_GIPHY_API_KEY."

MsgUpstream == "GIPHY error: 500 Internal Server Error"

MsgNotEnoughResults == "Not enough GIF results for that theme. Try another theme."

MsgNotEnoughPool == "Not enough GIFs in the pool. Try another theme."

MsgThemeEmpty == "Theme is empty. Type something."

-----------------------------------------------------------------------------
(* SpecReducer: gameReducer under every sequence of its actions *)

\* Most votes kept in history
MaxHistory == 2

ReducerThemes == {<<>>, Cats, <<"d">>}

\* leftGif/rightGif payloads of LOAD_PAIR_SUCCESS
ReducerPairs == {<<GifA, GifB>>, <<GifB, GifA>>}

ReducerPoolCounts == {2, 3}

ReducerErrors == {MsgUpstream, MsgThemeEmpty}

PickIdle ==
    /\ pArr = <<>>
    /\ pI = 0
    /\ pJ = 0
    /\ pPc = "idle"
    /\ pResult = None

InitReducerVars ==
    /\ state = initialState
    /\ dispatched = <<>>
    /\ prevLen = 0
    /\ preVote = None

\* The provider's own state, before any effect has run
InitWidgetVars(key) ==
    /\ rating = RatingPG
    /\ poolCache = <<>>
    /\ apiKey = key
    /\ mounted = FALSE
    /\ pending = EmptyBag
    /\ lastOp = [op |-> "render"]

InitReducer ==
    /\ InitReducerVars
    /\ InitWidgetVars("")
    /\ PickIdle

\* One action dispatched to the reducer
Apply(a) ==
    /\ Dispatch(<<a>>)
    /\ preVote' = TrackVote(preVote, state, a)
    /\ UNCHANGED <<widgetVars, pickVars>>

SET_THEME ==
    \E th \in ReducerThemes : Apply([type |-> "SET_THEME", theme |-> th])

LOAD_PAIR_START ==
    Apply([type |-> "LOAD_PAIR_START"])

LOAD_PAIR_SUCCESS ==
    \E p \in ReducerPairs, n \in ReducerPoolCounts :
        Apply([type |-> "LOAD_PAIR_SUCCESS",
               leftGif |-> p[1], rightGif |-> p[2], poolCount |-> n])

LOAD_PAIR_ERROR ==
    \E e \in ReducerErrors : Apply([type |-> "LOAD_PAIR_ERROR", error |-> e])

VOTE ==
    /\ Len(state.history) < MaxHistory
    /\ \E t \in VoteType, w \in Side, now \in Timestamps :
           Apply([type |-> "VOTE", voteType |-> t, winnerSide |-> w, now |-> now])

UNDO_LAST_VOTE ==
    Apply([type |-> "UNDO_LAST_VOTE"])

RESET_RUN ==
    Apply([type |-> "RESET_RUN"])

NextReducer ==
    \/ SET_THEME
    \/ LOAD_PAIR_START
    \/ LOAD_PAIR_SUCCESS
    \/ LOAD_PAIR_ERROR
    \/ VOTE
    \/ UNDO_LAST_VOTE
    \/ RESET_RUN

SpecReducer == InitReducer /\ [][NextReducer]_vars

-----------------------------------------------------------------------------
(* GIPHY helpers (GifVote.tsx:214-248) *)

\* Math.random() is k / RandomResolution for some k in 0..RandomResolution-1
RandomResolution == 4

Randoms == 0..(RandomResolution - 1)

\* Math.floor(Math.random() * (max - min)) + min, for Math.random() = k / RandomResolution
randomInt(k, min, max) == ((k * (max - min)) \div RandomResolution) + min

\* arr[i] of a JavaScript array (0-based); undefined out of range
Undefined == [undefined |-> TRUE]

At(arr, i) == IF i + 1 \in DOMAIN arr THEN arr[i + 1] ELSE Undefined

\* a || b on strings: "" is falsy
OrElse(a, b) == IF a # "" THEN a ELSE b

normalizeGif(raw, uuid) ==
    [id |-> IF IsSome(raw.id) THEN Get(raw.id) ELSE uuid,
     title |-> IF IsSome(raw.title) THEN Get(raw.title) ELSE "Untitled",
     displayUrl |->
         OrElse(raw.images.fixed_width,
                OrElse(raw.images.downsized, OrElse(raw.images.original, "")))]

\* Every value pickTwoDistinct(arr) can return: null, or [arr[i], arr[j]] for
\* a first draw i and the first later draw j that differs from i
PickOutcomes(arr) ==
    IF Len(arr) < 2
    THEN {None}
    ELSE LET draws == {randomInt(k, 0, Len(arr)) : k \in Randoms}
         IN  {Some(<<At(arr, d[1]), At(arr, d[2])>>) :
                  d \in {e \in draws \X draws : e[2] # e[1]}}

-----------------------------------------------------------------------------
(* The search API (external): what one fetch can resolve to *)

RawA ==
    [id |-> Some("a"), title |-> Some("A"),
     images |-> [fixed_width |-> "u1", downsized |-> "u1d", original |-> "u1o"]]

RawB ==
    [id |-> Some("b"), title |-> None,
     images |-> [fixed_width |-> "", downsized |-> "u2", original |-> "u2o"]]

RawNoUrl ==
    [id |-> Some("c"), title |-> Some("C"),
     images |-> [fixed_width |-> "", downsized |-> "", original |-> ""]]

\* kind: "reject" (fetch rejects), "status" (res.ok false), "ok" (json.data = data)
Responses ==
    {[kind |-> "reject", data |-> <<>>],
     [kind |-> "status", data |-> <<>>],
     [kind |-> "ok", data |-> <<RawNoUrl, RawA>>],
     [kind |-> "ok", data |-> <<RawA, RawNoUrl, RawB>>],
     [kind |-> "ok", data |-> <<RawB, RawA>>]}

MsgNetwork == "Failed to fetch"

\* crypto.randomUUID() for the record at position i of a response
UuidAt(i) == <<"uuid", i>>

\* Mutant: fetchPool without the check for at least two usable items.
FetchPoolNoMinimum(resp) ==
    IF resp.kind = "reject" THEN [ok |-> FALSE, pool |-> <<>>, error |-> MsgNetwork]
    ELSE IF resp.kind = "status" THEN [ok |-> FALSE, pool |-> <<>>, error |-> MsgUpstream]
    ELSE LET mapped == [i \in 1..Len(resp.data) |-> normalizeGif(resp.data[i], UuidAt(i))]
             HasUrl(g) == g.displayUrl # ""
             normalized == SelectSeq(mapped, HasUrl)
         IN  [ok |-> TRUE, pool |-> normalized, error |-> ""]

\* fetchPool after the await (GifVote.tsx:302-321): [ok, pool] or [~ok, error]
fetchPoolResult(resp) ==
    IF resp.kind = "reject" THEN [ok |-> FALSE, pool |-> <<>>, error |-> MsgNetwork]
    ELSE IF resp.kind = "status" THEN [ok |-> FALSE, pool |-> <<>>, error |-> MsgUpstream]
    ELSE LET mapped == [i \in 1..Len(resp.data) |-> normalizeGif(resp.data[i], UuidAt(i))]
             HasUrl(g) == g.displayUrl # ""
             normalized == SelectSeq(mapped, HasUrl)
         IN  IF Len(normalized) < 2
             THEN [ok |-> FALSE, pool |-> <<>>, error |-> MsgNotEnoughResults]
             ELSE [ok |-> TRUE, pool |-> normalized, error |-> ""]

-----------------------------------------------------------------------------
(* The provider (GifVote.tsx:272-396) *)

\* Most loadNextPair calls suspended at fetch at once
MaxInFlight == 2

\* Most votes the widget's user keeps in history
MaxVotes == 1

\* Date.now() readings of the widget's votes
ClickTimes == {1}

\* What the user can have typed into the theme input when pressing Apply
Drafts == {<<>>, <<" ">>, <<" ", "C", "a", "t", "s", "\t">>}

ApiKeys == {"", "key"}

\* ensurePool's key (GifVote.tsx:326)
poolKey(theme, r) == toLowerCase(trim(theme)) \o <<"|">> \o r

\* poolCacheRef.current.get(key)
cacheGet(cache, key) == IF key \in DOMAIN cache THEN Some(cache[key]) ELSE None

\* Mutant: set drops every other entry of the map.
CacheSetEvicts(cache, key, pool) == key :> pool

\* poolCacheRef.current.set(key, pool)
cacheSet(cache, key, pool) == (key :> pool) @@ cache

\* loadNextPair's tail once ensurePool has returned pool (GifVote.tsx:348-359):
\* the actions it can dispatch
pairActions(pool) ==
    {IF IsSome(pair)
     THEN [type |-> "LOAD_PAIR_SUCCESS", leftGif |-> Get(pair)[1],
           rightGif |-> Get(pair)[2], poolCount |-> Len(pool)]
     ELSE [type |-> "LOAD_PAIR_ERROR", error |-> MsgNotEnoughPool] :
         pair \in PickOutcomes(pool)}

\* Mutant: fetchPool does not check the API key.
LoadWithoutKeyCheck(s, r) ==
    LET start == [type |-> "LOAD_PAIR_START"]
        theme == trim(s.theme)
        key == poolKey(theme, r)
        cached == cacheGet(poolCache, key)
    IN  IF theme = <<>>
        THEN {[sync |-> <<start, [type |-> "LOAD_PAIR_ERROR", error |-> MsgThemeEmpty]>>,
               micro |-> <<>>, issue |-> None]}
        ELSE IF IsSome(cached) /\ Len(Get(cached)) >= 2
        THEN {[sync |-> <<start>>, micro |-> <<a>>, issue |-> None] :
                  a \in pairActions(Get(cached))}
        ELSE {[sync |-> <<start>>, micro |-> <<>>, issue |-> Some([key |-> key])]}

\* Mutant: ensurePool never looks into the cache.
LoadIgnoringCache(s, r) ==
    LET start == [type |-> "LOAD_PAIR_START"]
        theme == trim(s.theme)
    IN  IF theme = <<>>
        THEN {[sync |-> <<start, [type |-> "LOAD_PAIR_ERROR", error |-> MsgThemeEmpty]>>,
               micro |-> <<>>, issue |-> None]}
        ELSE IF apiKey = ""
        THEN {[sync |-> <<start>>,
               micro |-> <<[type |-> "LOAD_PAIR_ERROR", error |-> MsgMissingKey]>>,
               issue |-> None]}
        ELSE {[sync |-> <<start>>, micro |-> <<>>,
               issue |-> Some([key |-> poolKey(theme, r)])]}

\* loadNextPair called in a render showing state s with rating r, up to its first
\* suspension at fetch (GifVote.tsx:338-366, 324-336, 285-302). Each outcome:
\*   sync   the actions dispatched before the call returns,
\*   micro  the actions dispatched by its continuation before the next task,
\*   issue  the pending fetch it leaves, if any.
loadNextPair(s, r) ==
    LET start == [type |-> "LOAD_PAIR_START"]
        theme == trim(s.theme)
        key == poolKey(theme, r)
        cached == cacheGet(poolCache, key)
    IN  IF theme = <<>>
        THEN {[sync |-> <<start, [type |-> "LOAD_PAIR_ERROR", error |-> MsgThemeEmpty]>>,
               micro |-> <<>>, issue |-> None]}
        ELSE IF IsSome(cached) /\ Len(Get(cached)) >= 2
        THEN {[sync |-> <<start>>, micro |-> <<a>>, issue |-> None] :
                  a \in pairActions(Get(cached))}
        ELSE IF apiKey = ""
        THEN {[sync |-> <<start>>,
               micro |-> <<[type |-> "LOAD_PAIR_ERROR", error |-> MsgMissingKey]>>,
               issue |-> None]}
        ELSE {[sync |-> <<start>>, micro |-> <<>>,
               issue |-> Some([key |-> key])]}

\* The bag of the fetches a sequence of loadNextPair outcomes leaves pending
RECURSIVE issued(_)
issued(outs) ==
    IF outs = <<>>
    THEN EmptyBag
    ELSE (IF IsSome(Head(outs).issue) THEN SetToBag({Get(Head(outs).issue)}) ELSE EmptyBag)
             (+) issued(Tail(outs))

RECURSIVE syncOf(_)
syncOf(outs) == IF outs = <<>> THEN <<>> ELSE Head(outs).sync \o syncOf(Tail(outs))

RECURSIVE microOf(_)
microOf(outs) == IF outs = <<>> THEN <<>> ELSE Head(outs).micro \o microOf(Tail(outs))

\* One task: the handler dispatches first, then calls loadNextPair once per
\* element of outs; the continuations run before the next task.
Task(op, first, outs) ==
    /\ BagCardinality(pending (+) issued(outs)) <= MaxInFlight
    /\ Dispatch(first \o syncOf(outs) \o microOf(outs))
    /\ pending' = pending (+) issued(outs)
    /\ lastOp' = op
    /\ UNCHANGED <<preVote, poolCache, apiKey, pickVars>>

\* Both effects run after the first render (GifVote.tsx:386-396)
Mount ==
    /\ ~mounted
    /\ mounted' = TRUE
    /\ \E o1 \in loadNextPair(state, rating), o2 \in loadNextPair(state, rating) :
           Task([op |-> "mount"], <<>>, <<o1, o2>>)
    /\ UNCHANGED rating

\* Mutant: the draft is trimmed but a blank draft gets no default.
ThemeTrimOnly(draft) == trim(draft)

\* setTheme's argument to SET_THEME (GifVote.tsx:370)
themeOrDefault(draft) == IF trim(draft) # <<>> THEN trim(draft) ELSE Cats

\* Apply button / suggestion (GifVote.tsx:501, 539, 368-371); the theme effect
\* (GifVote.tsx:393-396) runs when state.theme changed
setThemeFrom(drafts) ==
    /\ mounted
    /\ \E draft \in drafts :
           LET a == [type |-> "SET_THEME", theme |-> themeOrDefault(draft)]
               next == gameReducer(state, a)
               op == [op |-> "setTheme", draft |-> draft]
           IN  IF next.theme # state.theme
               THEN \E o \in loadNextPair(next, rating) : Task(op, <<a>>, <<o>>)
               ELSE Task(op, <<a>>, <<>>)
    /\ UNCHANGED <<rating, mounted>>

setTheme == setThemeFrom(Drafts)

\* New Pair button (GifVote.tsx:439)
newPair ==
    /\ mounted
    /\ \E o \in loadNextPair(state, rating) :
           Task([op |-> "newPair", errored |-> IsSome(state.error)], <<>>, <<o>>)
    /\ UNCHANGED <<rating, mounted>>

\* Mutant: the vote buttons are rendered whatever the state.
VoteAlwaysRendered ==
    /\ mounted
    /\ Len(state.history) < MaxVotes
    /\ \E t \in VoteType, w \in Side, now \in ClickTimes :
           LET a == [type |-> "VOTE", voteType |-> t, winnerSide |-> w, now |-> now]
           IN  \E o \in loadNextPair(gameReducer(state, a), rating) :
                   Task([op |-> "vote"], <<a>>, <<o>>)
    /\ UNCHANGED <<rating, mounted>>

\* Like / Funny buttons, rendered by GifArena only when not loading, no error
\* and both items set (GifVote.tsx:578-647, 373-379)
vote ==
    /\ mounted
    /\ ~state.isLoading
    /\ ~IsSome(state.error)
    /\ IsSome(state.leftGif) /\ IsSome(state.rightGif)
    /\ Len(state.history) < MaxVotes
    /\ \E t \in VoteType, w \in Side, now \in ClickTimes :
           LET a == [type |-> "VOTE", voteType |-> t, winnerSide |-> w, now |-> now]
           IN  \E o \in loadNextPair(gameReducer(state, a), rating) :
                   Task([op |-> "vote"], <<a>>, <<o>>)
    /\ UNCHANGED <<rating, mounted>>

\* Undo button, disabled when history is empty (GifVote.tsx:445-451, 381-383)
undo ==
    /\ mounted
    /\ Len(state.history) # 0
    /\ Task([op |-> "undo"], <<[type |-> "UNDO_LAST_VOTE"]>>, <<>>)
    /\ UNCHANGED <<rating, mounted>>

\* Reset button (GifVote.tsx:803-809)
reset ==
    /\ mounted
    /\ Task([op |-> "reset"], <<[type |-> "RESET_RUN"]>>, <<>>)
    /\ UNCHANGED <<rating, mounted>>

\* Rating select (GifVote.tsx:426-435); the effect (GifVote.tsx:393-396) runs
\* when rating changed
setRating ==
    /\ mounted
    /\ \E r \in Ratings \ {rating} :
           /\ rating' = r
           /\ \E o \in loadNextPair(state, r) : Task([op |-> "setRating"], <<>>, <<o>>)
    /\ UNCHANGED mounted

\* Mutant: a rejected fetch is not caught, nothing is dispatched.
RejectEscapes ==
    \E load \in BagToSet(pending), resp \in Responses :
        LET res == fetchPoolResult(resp)
        IN  /\ pending' = pending (-) SetToBag({load})
            /\ IF res.ok
               THEN /\ poolCache' = cacheSet(poolCache, load.key, res.pool)
                    /\ \E a \in pairActions(res.pool) : Dispatch(<<a>>)
               ELSE /\ IF resp.kind = "reject"
                       THEN Dispatch(<<>>)
                       ELSE Dispatch(<<[type |-> "LOAD_PAIR_ERROR", error |-> res.error]>>)
                    /\ UNCHANGED poolCache
            /\ lastOp' = [op |-> "fetchResolves", key |-> load.key, ok |-> res.ok,
                          old |-> cacheGet(poolCache, load.key)]
            /\ UNCHANGED <<preVote, rating, apiKey, mounted, pickVars>>

\* Mutant: a completion is applied only if its key is the one of the theme
\* and rating now shown (a guard against stale responses).
StaleDiscarded(responses) ==
    \E load \in BagToSet(pending), resp \in responses :
        LET res == fetchPoolResult(resp)
            fresh == load.key = poolKey(state.theme, rating)
        IN  /\ pending' = pending (-) SetToBag({load})
            /\ IF res.ok
               THEN /\ poolCache' = cacheSet(poolCache, load.key, res.pool)
                    /\ \E a \in pairActions(res.pool) :
                           Dispatch(IF fresh THEN <<a>> ELSE <<>>)
               ELSE /\ Dispatch(IF fresh
                                THEN <<[type |-> "LOAD_PAIR_ERROR", error |-> res.error]>>
                                ELSE <<>>)
                    /\ UNCHANGED poolCache
            /\ lastOp' = [op |-> "fetchResolves", key |-> load.key, ok |-> res.ok,
                          old |-> cacheGet(poolCache, load.key)]
            /\ UNCHANGED <<preVote, rating, apiKey, mounted, pickVars>>

\* A pending fetch resolves with one of the given responses: the rest of
\* fetchPool, ensurePool and loadNextPair (GifVote.tsx:302-321, 334-335, 348-365)
fetchResolvesWith(responses) ==
    \E load \in BagToSet(pending), resp \in responses :
        LET res == fetchPoolResult(resp)
        IN  /\ pending' = pending (-) SetToBag({load})
            /\ IF res.ok
               THEN /\ poolCache' = cacheSet(poolCache, load.key, res.pool)
                    /\ \E a \in pairActions(res.pool) : Dispatch(<<a>>)
               ELSE /\ Dispatch(<<[type |-> "LOAD_PAIR_ERROR", error |-> res.error]>>)
                    /\ UNCHANGED poolCache
            /\ lastOp' = [op |-> "fetchResolves", key |-> load.key, ok |-> res.ok,
                          old |-> cacheGet(poolCache, load.key)]
            /\ UNCHANGED <<preVote, rating, apiKey, mounted, pickVars>>

fetchResolves == fetchResolvesWith(Responses)

Init ==
    /\ InitReducerVars
    /\ \E key \in ApiKeys : InitWidgetVars(key)
    /\ PickIdle

Next ==
    \/ Mount
    \/ setTheme
    \/ newPair
    \/ vote
    \/ undo
    \/ reset
    \/ setRating
    \/ fetchResolves

Spec == Init /\ [][Next]_vars

-----------------------------------------------------------------------------
(* SpecThemes: the widget with the rating select left alone, themes that   *)
(* have different cache keys, and responses that repeat a record           *)

\* What the user can have typed: blank (the default "cats") or "D"
ThemeDrafts == {<<>>, <<"D", "\t">>}

\* As Responses, and a response holding the same record twice
RepeatingResponses ==
    Responses \cup {[kind |-> "ok", data |-> <<RawA, RawA>>]}

applyTheme == setThemeFrom(ThemeDrafts)

fetchResolvesRepeating == fetchResolvesWith(RepeatingResponses)

NextThemes ==
    \/ Mount
    \/ applyTheme
    \/ newPair
    \/ vote
    \/ undo
    \/ reset
    \/ fetchResolvesRepeating

SpecThemes == Init /\ [][NextThemes]_vars

-----------------------------------------------------------------------------
(* SpecPick: pickTwoDistinct (GifVote.tsx:242-248), one statement per step *)

\* Longest array handed to pickTwoDistinct
MaxArr == 3

PickItems == {GifA, GifB}

Arrays == UNION {[1..n -> PickItems] : n \in 0..MaxArr}

InitPick ==
    /\ InitReducerVars
    /\ InitWidgetVars("")
    /\ pArr \in Arrays
    /\ pI = 0
    /\ pJ = 0
    /\ pPc = "call"
    /\ pResult = None

\* if (arr.length < 2) return null
PickGuard ==
    /\ pPc = "call"
    /\ Len(pArr) < 2
    /\ pResult' = None
    /\ pPc' = "done"
    /\ UNCHANGED <<pArr, pI, pJ, reducerVars, widgetVars>>

\* const i = randomInt(0, arr.length)
PickDrawI ==
    /\ pPc = "call"
    /\ Len(pArr) >= 2
    /\ \E k \in Randoms : pI' = randomInt(k, 0, Len(pArr))
    /\ pPc' = "drawJ"
    /\ UNCHANGED <<pArr, pJ, pResult, reducerVars, widgetVars>>

\* let j = randomInt(0, arr.length)
PickDrawJ ==
    /\ pPc = "drawJ"
    /\ \E k \in Randoms : pJ' = randomInt(k, 0, Len(pArr))
    /\ pPc' = "while"
    /\ UNCHANGED <<pArr, pI, pResult, reducerVars, widgetVars>>

\* while (j === i) j = randomInt(0, arr.length)
PickRedraw ==
    /\ pPc = "while"
    /\ pJ = pI
    /\ \E k \in Randoms : pJ' = randomInt(k, 0, Len(pArr))
    /\ UNCHANGED <<pArr, pI, pPc, pResult, reducerVars, widgetVars>>

\* Mutant: the pair is returned without the redraw loop.
PickReturnNoRedraw ==
    /\ pPc = "while"
    /\ pResult' = Some(<<At(pArr, pI), At(pArr, pJ)>>)
    /\ pPc' = "done"
    /\ UNCHANGED <<pArr, pI, pJ, reducerVars, widgetVars>>

\* return [arr[i], arr[j]]
PickReturn ==
    /\ pPc = "while"
    /\ pJ # pI
    /\ pResult' = Some(<<At(pArr, pI), At(pArr, pJ)>>)
    /\ pPc' = "done"
    /\ UNCHANGED <<pArr, pI, pJ, reducerVars, widgetVars>>

NextPick ==
    \/ PickGuard
    \/ PickDrawI
    \/ PickDrawJ
    \/ PickRedraw
    \/ PickReturn

SpecPick == InitPick /\ [][NextPick]_vars

-----------------------------------------------------------------------------
(* Properties of gameReducer, checked under SpecReducer *)

Cells == VoteType \X Side

\* Records of history h that voted (t, w)
Matching(h, t, w) ==
    {i \in 1..Len(h) : h[i].voteType = t /\ h[i].winnerSide = w}

\* The single action the last step dispatched is of type ty
Last(ty) == Len(dispatched) = 1 /\ dispatched[1].type = ty

\* C1: in every state reachable by any sequence of the seven reducer actions,
\* each score cell equals the number of history records voting that cell.
C1_ScoreCountsHistory ==
    \A c \in Cells :
        state.score[c[1]][c[2]] = Cardinality(Matching(state.history, c[1], c[2]))

\* An undo has just removed the newer of two records: the remaining record is
\* the only vote still counted.
C1_Witness ==
    /\ Last("UNDO_LAST_VOTE")
    /\ prevLen = 2
    /\ Len(state.history) = 1
    /\ state.history[1].voteType = "funny"
    /\ state.history[1].winnerSide = "right"
    /\ state.score.funny.right = 1

\* C2: a vote cast with both sides set, followed by any LOAD_PAIR_START /
\* LOAD_PAIR_SUCCESS / LOAD_PAIR_ERROR actions (or none) and then an undo,
\* leaves score, round and history exactly as they were before the vote.
C2_UndoInvertsVote ==
    (IsSome(preVote) /\ Get(preVote).undone) =>
        /\ state.score = Get(preVote).score
        /\ state.round = Get(preVote).round
        /\ state.history = Get(preVote).history

\* A second vote was undone after the load it triggered had delivered a pair.
C2_Witness ==
    /\ IsSome(preVote)
    /\ Get(preVote).undone
    /\ Get(preVote).between = "LOAD_PAIR_SUCCESS"
    /\ Len(Get(preVote).history) = 1
    /\ Last("UNDO_LAST_VOTE")

\* C3: SET_THEME from any reachable state, with any theme, yields round 1, a
\* zero score, an empty history, no left or right item, poolCount 0, no error,
\* and the given theme.
C3_SetThemeResets ==
    Last("SET_THEME") =>
        /\ state.round = 1
        /\ \A c \in Cells : state.score[c[1]][c[2]] = 0
        /\ state.history = <<>>
        /\ state.leftGif = None
        /\ state.rightGif = None
        /\ state.poolCount = 0
        /\ state.error = None
        /\ state.theme = dispatched[1].theme

\* SET_THEME was applied while loading to a state holding two votes.
C3_Witness ==
    /\ Last("SET_THEME")
    /\ prevLen = 2
    /\ state.isLoading
    /\ state.theme = <<"d">>

\* C4: from every reachable state s, RESET_RUN yields the state SET_THEME(s.theme)
\* yields: the run fields are reset, theme and isLoading are kept.
C4_ResetIsSetThemeSameTheme ==
    [][Last("RESET_RUN")' =>
          /\ state' = ReduceSetTheme(state, [type |-> "SET_THEME", theme |-> state.theme])
          /\ state'.theme = state.theme
          /\ state'.isLoading = state.isLoading
          /\ state'.round = 1
          /\ state'.score = ZeroScore
          /\ state'.history = <<>>
          /\ state'.leftGif = None
          /\ state'.rightGif = None
          /\ state'.poolCount = 0
          /\ state'.error = None]_vars

\* RESET_RUN was applied while loading, under a non-default theme, to two votes.
C4_Witness ==
    /\ Last("RESET_RUN")
    /\ prevLen = 2
    /\ state.isLoading
    /\ state.theme = <<"d">>

\* C5: VOTE on a state whose left or right item is unset changes nothing.
C5_VoteUnsetIsNoop ==
    [][(Last("VOTE")' /\ (~IsSome(state.leftGif) \/ ~IsSome(state.rightGif))) =>
          state' = state]_vars

\* VOTE was dispatched on an empty board (VOTE never changes the board).
C5_Witness ==
    /\ Last("VOTE")
    /\ ~IsSome(state.leftGif)
    /\ state.isLoading
    /\ state.theme = <<"d">>

\* C6: VOTE(t, w) on a state with both items set adds 1 to score cell (t, w)
\* and to no other cell, prepends one record holding the pre-vote round, the
\* theme, t, w and the ids of the left and right items, adds 1 to round, and
\* leaves theme, left, right, poolCount, isLoading and error unchanged.
C6_VoteEffect ==
    [][(Last("VOTE")' /\ IsSome(state.leftGif) /\ IsSome(state.rightGif)) =>
          LET a == dispatched'[1]
              rec == Head(state'.history)
          IN  /\ \A c \in Cells :
                     state'.score[c[1]][c[2]] =
                         state.score[c[1]][c[2]]
                             + (IF c = <<a.voteType, a.winnerSide>> THEN 1 ELSE 0)
              /\ Len(state'.history) = Len(state.history) + 1
              /\ Tail(state'.history) = state.history
              /\ rec.round = state.round
              /\ rec.theme = state.theme
              /\ rec.voteType = a.voteType
              /\ rec.winnerSide = a.winnerSide
              /\ rec.leftId = Get(state.leftGif).id
              /\ rec.rightId = Get(state.rightGif).id
              /\ state'.round = state.round + 1
              /\ state'.theme = state.theme
              /\ state'.leftGif = state.leftGif
              /\ state'.rightGif = state.rightGif
              /\ state'.poolCount = state.poolCount
              /\ state'.isLoading = state.isLoading
              /\ state'.error = state.error]_vars

\* A second vote, funny/right, was recorded with the board's ids.
C6_Witness ==
    /\ Last("VOTE")
    /\ prevLen = 1
    /\ Len(state.history) = 2
    /\ state.history[1].voteType = "funny"
    /\ state.history[1].winnerSide = "right"
    /\ state.history[1].leftId = "b"
    /\ state.history[1].rightId = "a"
    /\ state.round = 3

\* C7: UNDO_LAST_VOTE on a state whose history is empty changes nothing.
C7_UndoEmptyIsNoop ==
    [][(Last("UNDO_LAST_VOTE")' /\ state.history = <<>>) => state' = state]_vars

\* UNDO_LAST_VOTE was dispatched on an empty history, a pair and an error showing.
C7_Witness ==
    /\ Last("UNDO_LAST_VOTE")
    /\ prevLen = 0
    /\ IsSome(state.leftGif)
    /\ IsSome(state.error)

\* C22: in every reachable state round = 1 + the length of history, so
\* round >= 1, and every score cell is >= 0; an effective vote adds one
\* record and an undo of a non-empty history removes one, and there the
\* clamps Math.max(1, round - 1) and Math.max(0, cell - 1) are not taken.
C22_RoundCountsHistory ==
    /\ [](/\ state.round = 1 + Len(state.history)
          /\ state.round >= 1
          /\ \A c \in Cells : state.score[c[1]][c[2]] >= 0)
    /\ [][/\ (Last("VOTE")' /\ IsSome(state.leftGif) /\ IsSome(state.rightGif)) =>
                 /\ Len(state'.history) = Len(state.history) + 1
                 /\ state'.round = state.round + 1
          /\ (Last("UNDO_LAST_VOTE")' /\ state.history # <<>>) =>
                 LET last == Head(state.history)
                 IN  /\ Len(state'.history) = Len(state.history) - 1
                     /\ state.round - 1 >= 1
                     /\ state'.round = state.round - 1
                     /\ state.score[last.voteType][last.winnerSide] - 1 >= 0
                     /\ state'.score[last.voteType][last.winnerSide] =
                            state.score[last.voteType][last.winnerSide] - 1]_vars

\* Two votes were cast and one of them undone: one record, round 2.
C22_Witness ==
    /\ Last("UNDO_LAST_VOTE")
    /\ prevLen = 2
    /\ Len(state.history) = 1
    /\ state.round = 2

\* C26: the records of history, newest first, carry contiguous decreasing
\* round numbers, the record at 0-based position i having round
\* Len(history) - i, and every record's theme is the current theme.
C26_HistoryRoundsContiguous ==
    \A i \in 1..Len(state.history) :
        /\ state.history[i].round = Len(state.history) - (i - 1)
        /\ state.history[i].theme = state.theme

\* Two votes are recorded under a theme that was set by SET_THEME.
C26_Witness ==
    /\ Len(state.history) = 2
    /\ state.history[1].round = 2
    /\ state.history[2].round = 1
    /\ state.theme = <<"d">>
    /\ state.history[1].theme = <<"d">>

-----------------------------------------------------------------------------
(* Properties of the widget, checked under Spec *)

Blank(str) == \A i \in 1..Len(str) : str[i] \in Whitespace

\* str without its leading and trailing whitespace, for a str that is not blank
Inked(str) ==
    LET ink == {i \in 1..Len(str) : str[i] \notin Whitespace}
        first == CHOOSE i \in ink : \A j \in ink : i <= j
        last == CHOOSE i \in ink : \A j \in ink : i >= j
    IN  SubSeq(str, first, last)

\* C8: setTheme with an empty or whitespace-only string sets the theme to the
\* default "cats" and otherwise to the trimmed input; so state.theme is never
\* blank and no load fails with the "Theme is empty" error.
C8_ThemeNeverBlank ==
    /\ ~Blank(state.theme)
    /\ state.error # Some(MsgThemeEmpty)
    /\ \A i \in 1..Len(dispatched) :
           dispatched[i].type = "LOAD_PAIR_ERROR" => dispatched[i].error # MsgThemeEmpty
    /\ lastOp.op = "setTheme" =>
           state.theme = IF Blank(lastOp.draft) THEN Cats ELSE Inked(lastOp.draft)

\* A whitespace-only draft replaced another theme by "cats", and the theme
\* effect started a load.
C8_Witness ==
    /\ lastOp.op = "setTheme"
    /\ lastOp.draft = <<" ">>
    /\ state.theme = Cats
    /\ Len(dispatched) >= 2
    /\ dispatched[2].type = "LOAD_PAIR_START"

\* Pending fetches for key k
PendingFor(k) ==
    BagCardinality([l \in {x \in BagToSet(pending) : x.key = k} |-> pending[l]])

AllKeys == {l.key : l \in BagToSet(pending)} \cup DOMAIN poolCache

\* C10 as claimed: over any calls of ensurePool with the same key, overlapping
\* or not, at most one fetch is issued: a step issues a fetch for a key only if
\* it issues one, none is pending for the key and the key is not cached.
C10_FetchAtMostOnce ==
    [][\A k \in AllKeys' :
           PendingFor(k)' > PendingFor(k) =>
               /\ PendingFor(k)' = PendingFor(k) + 1
               /\ PendingFor(k) = 0
               /\ k \notin DOMAIN poolCache]_vars

\* C10 (amended): a call of ensurePool that starts once the pool of its key
\* has been stored issues no fetch; only calls that start while no pool is
\* stored for the key, such as overlapping ones, fetch.
C10_NoFetchOnceCached ==
    [][\A k \in DOMAIN poolCache : PendingFor(k)' <= PendingFor(k)]_vars

\* Theme "Cats" was applied and its load was served from the pool stored
\* under the key "cats|pg", the only one stored: SET_THEME, LOAD_PAIR_START
\* and LOAD_PAIR_SUCCESS in one task, and no fetch pending.
C10_Witness ==
    /\ lastOp.op = "setTheme"
    /\ state.theme = <<"C", "a", "t", "s">>
    /\ rating = RatingPG
    /\ Len(dispatched) = 3
    /\ dispatched[3].type = "LOAD_PAIR_SUCCESS"
    /\ pending = EmptyBag
    /\ DOMAIN poolCache = {poolKey(Cats, RatingPG)}

\* C11 as claimed: the pool cache is insert-only: no step removes or replaces
\* the entry of a key that has one, overlapping loads included.
C11_CacheInsertOnly ==
    [][\A k \in DOMAIN poolCache :
           k \in DOMAIN poolCache' /\ poolCache'[k] = poolCache[k]]_vars

\* C11 (amended): no step removes a cache entry, and an entry is replaced only
\* by the successful resolution of a fetch for its key that was pending
\* before the step, i.e. one issued before the entry was stored.
C11_CacheKeepsKeys ==
    [][\A k \in DOMAIN poolCache :
           /\ k \in DOMAIN poolCache'
           /\ poolCache'[k] # poolCache[k] =>
                  /\ PendingFor(k) > 0
                  /\ PendingFor(k)' = PendingFor(k) - 1
                  /\ lastOp' = [op |-> "fetchResolves", key |-> k, ok |-> TRUE,
                                old |-> Some(poolCache[k])]]_vars

\* A fetch that overlapped another one for the same key resolved after the
\* entry was stored and replaced it by a different pool.
C11_Witness ==
    /\ lastOp.op = "fetchResolves"
    /\ lastOp.ok
    /\ IsSome(lastOp.old)
    /\ Get(lastOp.old) # poolCache[lastOp.key]

\* C12: every pool cache entry is a list of at least 2 items, each with a
\* non-empty displayUrl, and a step in which a load fails (missing
\* credential, upstream status, rejected fetch, fewer than 2 usable items)
\* leaves the cache unchanged.
C12_CachedPoolsUsable ==
    /\ [](\A k \in DOMAIN poolCache :
             /\ Len(poolCache[k]) >= 2
             /\ \A i \in 1..Len(poolCache[k]) : poolCache[k][i].displayUrl # "")
    /\ [][(\E i \in 1..Len(dispatched') : dispatched'[i].type = "LOAD_PAIR_ERROR")
             => poolCache' = poolCache]_vars

\* A fetch came back with too few usable items while a pool filtered from a
\* response with an unusable record was cached under its key; the entry is
\* still there.
C12_Witness ==
    /\ lastOp.op = "fetchResolves"
    /\ ~lastOp.ok
    /\ state.error = Some(MsgNotEnoughResults)
    /\ lastOp.old = Some(<<GifA, GifB>>)
    /\ poolCache[lastOp.key] = <<GifA, GifB>>

\* Number of actions of the given types in a sequence of dispatched actions
CountOf(as, types) == Cardinality({i \in 1..Len(as) : as[i].type \in types})

Starts(as) == CountOf(as, {"LOAD_PAIR_START"})

Completions(as) == CountOf(as, {"LOAD_PAIR_SUCCESS", "LOAD_PAIR_ERROR"})

InFlight == BagCardinality(pending)

\* C13: the LOAD_PAIR_START and LOAD_PAIR_ERROR transitions of a failing
\* loadNextPair leave left, right, poolCount, score, history, round and theme
\* unchanged, and after the LOAD_PAIR_ERROR isLoading is false and error is a
\* non-null message: checked on every step that dispatches only these two.
C13_FailedLoadKeepsBoard ==
    [][(/\ dispatched' # <<>>
        /\ \A i \in 1..Len(dispatched') :
               dispatched'[i].type \in {"LOAD_PAIR_START", "LOAD_PAIR_ERROR"})
           => /\ state'.leftGif = state.leftGif
              /\ state'.rightGif = state.rightGif
              /\ state'.poolCount = state.poolCount
              /\ state'.score = state.score
              /\ state'.history = state.history
              /\ state'.round = state.round
              /\ state'.theme = state.theme
              /\ dispatched'[Len(dispatched')].type = "LOAD_PAIR_ERROR" =>
                     /\ ~state'.isLoading
                     /\ IsSome(state'.error)
                     /\ Get(state'.error) = dispatched'[Len(dispatched')].error
                     /\ Get(state'.error) # ""]_vars

\* A fetch failed with the upstream status error while a pair and a vote
\* were on the board: both are still there, with the error.
C13_Witness ==
    /\ lastOp.op = "fetchResolves"
    /\ ~lastOp.ok
    /\ state.error = Some(MsgUpstream)
    /\ ~state.isLoading
    /\ IsSome(state.leftGif)
    /\ IsSome(state.rightGif)
    /\ Len(state.history) = 1

\* C14: every loadNextPair dispatches LOAD_PAIR_START and, once its fetch has
\* resolved or rejected, exactly one LOAD_PAIR_SUCCESS or LOAD_PAIR_ERROR:
\* a handler dispatches one start per call it makes, in every step the starts minus the completions dispatched is the change in
\* the number of suspended loads, no completion comes before the start of its
\* load, and with no load suspended isLoading is false.
C14_LoadsComplete ==
    /\ [](pending = EmptyBag => ~state.isLoading)
    /\ [][LET as == dispatched'
              resolved == IF InFlight' < InFlight THEN InFlight - InFlight' ELSE 0
          IN  /\ lastOp'.op \in {"newPair", "vote", "setRating"} => Starts(as) = 1
              /\ lastOp'.op = "mount" => Starts(as) = 2
              /\ Starts(as) - Completions(as) = InFlight' - InFlight
              /\ \A n \in 1..Len(as) :
                     Completions(SubSeq(as, 1, n)) <= Starts(SubSeq(as, 1, n)) + resolved]_vars

\* The last suspended fetch rejected: its load dispatched LOAD_PAIR_ERROR with
\* the rejection's message and nothing is loading.
C14_Witness ==
    /\ lastOp.op = "fetchResolves"
    /\ dispatched = <<[type |-> "LOAD_PAIR_ERROR", error |-> MsgNetwork]>>
    /\ state.error = Some(MsgNetwork)
    /\ pending = EmptyBag
    /\ ~state.isLoading

\* C15 as claimed: whenever a load is suspended at its fetch, isLoading is
\* true, also when several loads overlap.
C15_SuspendedMeansLoading == pending # EmptyBag => state.isLoading

\* C15 (amended): a step that suspends a load at its fetch ends with isLoading
\* true, and isLoading turns false only in a step that dispatches a
\* completion: so it is true from a load's start until the first completion
\* of any load, overlapping ones included.
C15_LoadingUntilCompletion ==
    [][/\ InFlight' > InFlight => state'.isLoading
       /\ (state.isLoading /\ ~state'.isLoading) => Completions(dispatched') > 0]_vars

\* Reset was pressed while two loads were suspended: still loading.
C15_Witness ==
    /\ lastOp.op = "reset"
    /\ InFlight = 2
    /\ state.isLoading

Has(as, type) == \E i \in 1..Len(as) : as[i].type = type

\* C16: VOTE is dispatched only by the vote handler and only from states
\* where isLoading is false, error is null and both sides are set, so the
\* reducer's unset-side guard is never taken: every vote adds its record.
C16_VoteOnlyOnReadyBoard ==
    [][Has(dispatched', "VOTE") =>
           /\ lastOp'.op = "vote"
           /\ ~state.isLoading
           /\ state.error = None
           /\ IsSome(state.leftGif)
           /\ IsSome(state.rightGif)
           /\ Len(state'.history) = Len(state.history) + 1]_vars

\* A vote was cast on a loaded board and recorded, and its load of the next
\* pair was served from the cache.
C16_Witness ==
    /\ lastOp.op = "vote"
    /\ prevLen = 0
    /\ Len(state.history) = 1
    /\ Len(dispatched) = 3
    /\ dispatched[3].type = "LOAD_PAIR_SUCCESS"

\* C17 as claimed: UNDO_LAST_VOTE is applied only to states with isLoading
\* false.
C17_NoUndoWhileLoading ==
    [][Has(dispatched', "UNDO_LAST_VOTE") => ~state.isLoading]_vars

\* C18 as claimed: every setTheme, also one that leaves the theme as it is,
\* is followed by exactly one loadNextPair before the next user action.
C18_SetThemeLoadsOnce ==
    [][lastOp'.op = "setTheme" => Starts(dispatched') = 1]_vars

Ready(s) ==
    /\ ~s.isLoading
    /\ s.error = None
    /\ IsSome(s.leftGif)
    /\ IsSome(s.rightGif)

\* C19: a load whose fetch comes back with at least 2 usable items, and a
\* retry (New Pair) from an Errored state whose key has a cached pool, end
\* with isLoading false, error null and both sides set, whatever failed
\* before.
C19_RetryRecovers ==
    [][(\/ lastOp'.op = "fetchResolves" /\ lastOp'.ok
        \/ /\ lastOp'.op = "newPair"
           /\ IsSome(state.error)
           /\ poolKey(state.theme, rating) \in DOMAIN poolCache)
           => /\ Ready(state')
              /\ dispatched'[Len(dispatched')].type = "LOAD_PAIR_SUCCESS"]_vars

\* New Pair was pressed while an error was shown and the load, served from
\* the cache, put a pair on the board.
C19_Witness ==
    /\ lastOp.op = "newPair"
    /\ lastOp.errored
    /\ Ready(state)

\* C20: without an API key no fetch is ever issued, the cache stays empty,
\* every loadNextPair ends with LOAD_PAIR_ERROR (the missing-key message) and
\* left and right are null.
C20_NoKeyNoFetch ==
    apiKey = "" =>
        /\ pending = EmptyBag
        /\ DOMAIN poolCache = {}
        /\ state.leftGif = None
        /\ state.rightGif = None
        /\ ~Has(dispatched, "LOAD_PAIR_SUCCESS")
        /\ Starts(dispatched) = Completions(dispatched)
        /\ \A i \in 1..Len(dispatched) :
               dispatched[i].type = "LOAD_PAIR_ERROR" => dispatched[i].error = MsgMissingKey

\* Without a key, New Pair was pressed and its load ended with the
\* missing-key error.
C20_Witness ==
    /\ apiKey = ""
    /\ lastOp.op = "newPair"
    /\ Starts(dispatched) = 1
    /\ state.error = Some(MsgMissingKey)
    /\ ~state.isLoading

\* C23: loading and error exclude each other: no reachable state has
\* isLoading true together with a non-null error, however loads, theme
\* changes, resets, votes and undos interleave.
C23_LoadingExcludesError ==
    ~(state.isLoading /\ IsSome(state.error))

\* One of two overlapping loads failed while the other is still suspended:
\* the error is shown and the loading flag is down.
C23_Witness ==
    /\ lastOp.op = "fetchResolves"
    /\ ~lastOp.ok
    /\ InFlight = 1
    /\ IsSome(state.error)
    /\ ~state.isLoading

\* C25: left is null iff right is null iff poolCount = 0, and a non-empty
\* history implies that both sides are set.
C25_BoardAllOrNothing ==
    /\ (state.leftGif = None) <=> (state.rightGif = None)
    /\ (state.leftGif = None) <=> (state.poolCount = 0)
    /\ state.history # <<>> => IsSome(state.leftGif) /\ IsSome(state.rightGif)

\* Reset was pressed after a vote: the board, the pool count and the history
\* are all cleared together.
C25_Witness ==
    /\ lastOp.op = "reset"
    /\ prevLen = 1
    /\ state.leftGif = None
    /\ state.rightGif = None
    /\ state.poolCount = 0
    /\ state.history = <<>>

\* C27 as claimed: once mounted, whenever left or right is null a
\* loadNextPair is in flight or an error is shown.
C27_EmptyBoardIsLoadingOrErrored ==
    mounted =>
        ((state.leftGif = None \/ state.rightGif = None) =>
             pending # EmptyBag \/ IsSome(state.error))

-----------------------------------------------------------------------------
(* Properties of the widget, checked under SpecThemes *)

\* C21: no request sequence guards overlapping loads: every completion is
\* applied when its fetch resolves, whether or not its key is the one of
\* the theme now shown; a success puts a pair of the pool it fetched on the
\* board with that pool's count, a failure sets the error.
C21_StaleResponseApplied ==
    [][lastOp'.op = "fetchResolves" =>
           /\ Len(dispatched') = 1
           /\ IF lastOp'.ok
              THEN LET pool == poolCache'[lastOp'.key]
                   IN  /\ dispatched'[1].type = "LOAD_PAIR_SUCCESS"
                       /\ state'.poolCount = Len(pool)
                       /\ \E i, j \in DOMAIN pool :
                              /\ i # j
                              /\ state'.leftGif = Some(pool[i])
                              /\ state'.rightGif = Some(pool[j])
              ELSE /\ dispatched'[1].type = "LOAD_PAIR_ERROR"
                   /\ state'.error = Some(dispatched'[1].error)]_vars

\* A fetch requested for an earlier theme resolved after SET_THEME: the board
\* shows a pair of its pool while the current theme has no pool cached and
\* its own fetch is still suspended.
C21_Witness ==
    /\ lastOp.op = "fetchResolves"
    /\ lastOp.ok
    /\ lastOp.key # poolKey(state.theme, rating)
    /\ poolKey(state.theme, rating) \notin DOMAIN poolCache
    /\ PendingFor(poolKey(state.theme, rating)) = 1
    /\ IsSome(state.leftGif)
    /\ IsSome(state.rightGif)
    /\ state.poolCount = Len(poolCache[lastOp.key])

\* C24 as claimed: whenever left and right are both set their ids differ.
C24_PairHasDistinctIds ==
    (IsSome(state.leftGif) /\ IsSome(state.rightGif)) =>
        Get(state.leftGif).id # Get(state.rightGif).id

-----------------------------------------------------------------------------
(* Properties of pickTwoDistinct, checked under SpecPick *)

\* C9: pickTwoDistinct returns null for every list of length 0 or 1, and for
\* every longer list returns [arr[i], arr[j]] for valid indices i # j,
\* whatever the random draws (a value the widget's PickOutcomes allows).
C9_PickTwoDistinct ==
    pPc = "done" =>
        /\ pResult \in PickOutcomes(pArr)
        /\ IF Len(pArr) < 2
           THEN pResult = None
           ELSE /\ pI \in 0..(Len(pArr) - 1)
                /\ pJ \in 0..(Len(pArr) - 1)
                /\ pI # pJ
                /\ pResult = Some(<<pArr[pI + 1], pArr[pJ + 1]>>)

\* A pair was returned from the last and the first position of a list of
\* three whose first and last elements are equal.
C9_Witness ==
    /\ pPc = "done"
    /\ Len(pArr) = 3
    /\ pI = 2
    /\ pJ = 0
    /\ pArr[1] = pArr[3]
    /\ IsSome(pResult)

====
